---- MODULE Spec2Model ----
(***************************************************************************)
(* A model of path_explain/path_explainer_tf.py: one call of               *)
(* PathExplainerTF.attributions, step by step.                             *)
(*                                                                         *)
(* Arrays are functions over 0-based index ranges, as in Python.  A sample *)
(* of feature shape S (the empty shape or a shape (F,)) is a function from *)
(* 0..Size(S)-1 to numbers.  Numbers are exact rationals <<n, d>>, d > 0,  *)
(* in lowest terms.  The baseline is immutable, so a batch of baseline     *)
(* rows is kept as the vector of the row indices it was gathered from.     *)
(* The model being explained is an external collaborator: it accepts rows  *)
(* of the feature shape it was built for and is differentiable; two        *)
(* families stand for it (see ModelGradient).                              *)
(*                                                                         *)
(* The gradient is the mathematical one: the derivative of the prediction  *)
(* with respect to batch_input, through the interpolation expression that  *)
(* the tape records (lines 108-118).  np.tile is taken to replicate reps[0]*)
(* times along the first axis, as lines 56-58 and 104-106 intend.          *)
(***************************************************************************)
EXTENDS Integers, Sequences, FiniteSets, TLC

\* ------------------------------------------------------------------ bounds
MaxN == 2
MaxF == 2
MaxR == 2
MaxC == 2
MaxBatch == 3
MaxSamples == 3

\* ------------------------------------------------------------- options
\* Python's None / a present value
None == {}
Some(v) == {v}
Get(o) == CHOOSE v \in o : TRUE

\* ------------------------------------------------------------- numbers
Abs(x) == IF x < 0 THEN -x ELSE x

RECURSIVE GCD(_, _)
GCD(a, b) == IF b = 0 THEN a ELSE GCD(b, a % b)

Rat(n, d) == LET g == GCD(Abs(n), d) IN <<n \div g, d \div g>>
Num(n) == <<n, 1>>
Zero == Num(0)
One == Num(1)
RAdd(a, b) == Rat(a[1] * b[2] + b[1] * a[2], a[2] * b[2])
RSub(a, b) == Rat(a[1] * b[2] - b[1] * a[2], a[2] * b[2])
RMul(a, b) == Rat(a[1] * b[1], a[2] * b[2])
RDivInt(a, k) == Rat(a[1], a[2] * k)

\* ------------------------------------------------------------- shapes
\* number of elements of one sample of feature shape S
Size(S) == IF S = <<>> THEN 1 ELSE S[1]
Rows(a) == Cardinality(DOMAIN a)
Min(a, b) == IF a < b THEN a ELSE b

\* ------------------------------------------------------------- the model
\* The derivative of the model's output (class c, or the only output when
\* output_index is None) with respect to element p of the row z it is fed.
ModelGradient(m, output_index, z, p) ==
    LET c == IF output_index = None THEN 0 ELSE Get(output_index)
    IN IF m.kind = "linear"
       THEN Num((c + 1) * (p + 1))
       ELSE RMul(Num(c + 1), z[p])

\* shape of model(inputs[0:1])
ModelOutputShape(m, rows) == IF m.multi THEN <<rows, m.C>> ELSE <<rows>>

\* ------------------------------------------------------------- the call
VARIABLES
    inputs,            \* [shape, data]: data[i][p], i in 0..N-1
    baseline,          \* [shape, data]: data[r][p], r in 0..R-1
    batch_size, num_samples, use_expectation,
    output_indices,    \* None or Some([i |-> class])
    model,             \* [multi, C, kind]
    pc,                \* where the call is
    error,             \* the exception that ended the call, or "none"
    is_multi_output,
    attr_shape,        \* shape of the result container, <<>> before allocation
    attributions,      \* slot |-> attribution map
    i, output_index, j,
    current_alphas, current_baseline,
    attribution_array, \* the list of per-row contributions
    batch,             \* the locals of the last chunk
    evals, grads,      \* model forward calls / tape.gradient calls so far
    chunks,            \* history: the chunks of the current _single_attribution
    used,              \* history: <<input, baseline row>> pairs that entered a chunk
                       \* of the input being attributed (or just attributed)
    writes             \* history: slot |-> the writes made to it

params == <<inputs, baseline, batch_size, num_samples, use_expectation,
            output_indices, model>>
vars == <<inputs, baseline, batch_size, num_samples, use_expectation,
          output_indices, model, pc, error, is_multi_output, attr_shape,
          attributions, i, output_index, j, current_alphas, current_baseline,
          attribution_array, batch, evals, grads, chunks, used, writes>>

N == inputs.shape[1]
R == baseline.shape[1]
S == Tail(inputs.shape)

Shapes == {<<>>} \cup {<<f>> : f \in 1..MaxF}
Kinds == {"linear", "quadratic"}
Models == {[multi |-> FALSE, C |-> 1, kind |-> k] : k \in Kinds}
          \cup {[multi |-> TRUE, C |-> c, kind |-> k] : c \in 1..MaxC, k \in Kinds}

\* an input batch of n samples of shape s, all entries distinct per row
InputBatch(n, s) ==
    [shape |-> <<n>> \o s,
     data |-> [a \in 0..(n - 1) |-> [p \in 0..(Size(s) - 1) |-> Num(1 + a + 2 * p)]]]

\* a baseline set of r rows of shape s: all zero (b = 0), or rows that differ
\* from one another and from every input (b = 1)
BaselineSet(r, s, b) ==
    [shape |-> <<r>> \o s,
     data |-> [a \in 0..(r - 1) |-> [p \in 0..(Size(s) - 1) |-> Num(b * (10 + a + p))]]]

\* the output_indices a caller may pass for n inputs and c classes: none, or
\* one class per input, neighbouring inputs asking for different classes
IndexChoices(n, c) == {None, Some([a \in 0..(n - 1) |-> (a + 1) % c])}

EmptyBatch == [number_to_draw |-> 0, replace |-> FALSE, batch_baseline |-> <<>>,
               batch_alphas |-> <<>>, input_rows |-> 0, batch_interpolated |-> <<>>]

Init ==
    /\ \E n \in 1..MaxN, s \in Shapes, r \in 1..MaxR, b \in {0, 1} :
          /\ inputs = InputBatch(n, s)
          /\ baseline = BaselineSet(r, s, b)
    /\ batch_size \in 1..MaxBatch
    /\ num_samples \in 1..MaxSamples
    /\ use_expectation \in BOOLEAN
    /\ model \in Models
    /\ output_indices \in IndexChoices(inputs.shape[1], model.C)
    /\ pc = "probe"
    /\ error = "none"
    /\ is_multi_output = FALSE
    /\ attr_shape = <<>>
    /\ attributions = <<>>
    /\ i = 0
    /\ output_index = None
    /\ j = 0
    /\ current_alphas = <<>>
    /\ current_baseline = <<>>
    /\ attribution_array = <<>>
    /\ batch = EmptyBatch
    /\ evals = 0
    /\ grads = 0
    /\ chunks = <<>>
    /\ used = {}
    /\ writes = <<>>

\* line 156-157: probe the model with the first input
Probe ==
    /\ pc = "probe"
    /\ evals' = evals + 1
    /\ is_multi_output' = (Len(ModelOutputShape(model, 1)) > 1)
    /\ pc' = "alloc"
    /\ UNCHANGED <<params, error, attr_shape, attributions, i, output_index, j,
                   current_alphas, current_baseline, attribution_array, batch,
                   grads, chunks, used, writes>>

\* np.zeros(shape): the shape given as one tuple
np_zeros(shape) == Some(shape)

\* np.zeros(*shape): the dimensions spread over numpy's positional parameters
\* (shape, dtype, order); a second dimension lands in dtype, a third in order,
\* and numpy rejects both with a TypeError
np_zeros_star(shape) == IF Len(shape) = 1 THEN Some(shape) ELSE None

\* the index tuples of the leading (non-feature) axes of a container
Slots(shape, s) ==
    IF Len(shape) = Len(s) + 1
    THEN {<<a>> : a \in 0..(shape[1] - 1)}
    ELSE {<<c, a>> : c \in 0..(shape[1] - 1), a \in 0..(shape[2] - 1)}

ZeroSample(s) == [p \in 0..(Size(s) - 1) |-> Zero]

\* mutant: the test of line 162 with `not` dropped
invalid_output_indices_inverted(multi, indices) == multi /\ indices # None

\* line 162: output_indices handed to a model that has a single output
invalid_output_indices(multi, indices) == ~multi /\ indices # None

\* line 159-166: validate output_indices and allocate the result
Allocate ==
    /\ pc = "alloc"
    /\ LET raise(e) ==
               /\ error' = e
               /\ pc' = "raised"
               /\ UNCHANGED <<attr_shape, attributions, writes>>
           allocated(shape) ==
               /\ attr_shape' = shape
               /\ attributions' = [k \in Slots(shape, S) |-> ZeroSample(S)]
               /\ writes' = [k \in Slots(shape, S) |-> <<>>]
               /\ pc' = "input"
               /\ UNCHANGED error
       IN IF is_multi_output /\ output_indices = None
          THEN allocated(Get(np_zeros(<<model.C>> \o inputs.shape)))
          ELSE IF invalid_output_indices(is_multi_output, output_indices)
          THEN raise("ValueError: output_indices")
          ELSE IF np_zeros_star(inputs.shape) = None
          THEN raise("TypeError: np.zeros")
          ELSE allocated(Get(np_zeros_star(inputs.shape)))
    /\ UNCHANGED <<params, is_multi_output, i, output_index, j, current_alphas,
                   current_baseline, attribution_array, batch, evals, grads,
                   chunks, used>>

\* mutant: np.linspace with endpoint=False
sample_alphas_open(n, expectation) ==
    IF expectation
    THEN [k \in 0..(n - 1) |-> Zero]
    ELSE [k \in 0..(n - 1) |-> Rat(k, n)]

\* mutant: expectation mode drawing its alphas from inside (0, 1)
sample_alphas_spread(n, expectation) ==
    IF expectation
    THEN [k \in 0..(n - 1) |-> Rat(k + 1, n + 1)]
    ELSE [k \in 0..(n - 1) |-> IF n = 1 THEN Zero ELSE Rat(k, n - 1)]

\* line 70-73: np.random.uniform(0, 0, n) is n zeros; np.linspace(0, 1, n)
\* is k/(n-1) for k = 0..n-1, and the single value 0 when n = 1
sample_alphas(n, expectation) ==
    IF expectation
    THEN [k \in 0..(n - 1) |-> Zero]
    ELSE [k \in 0..(n - 1) |-> IF n = 1 THEN Zero ELSE Rat(k, n - 1)]

\* mutant: baseline[0] in place of baseline[i]
select_baseline_first(a, expectation, r) ==
    IF ~expectation /\ r > 1
    THEN Some([k \in {0} |-> 0])
    ELSE Some([k \in 0..(r - 1) |-> k])

\* line 175-178: the rows of `baseline` that input a is attributed against,
\* None when baseline[a] is out of range (IndexError)
select_baseline(a, expectation, r) ==
    IF ~expectation /\ r > 1
    THEN IF a < r THEN Some([k \in {0} |-> a]) ELSE None
    ELSE Some([k \in 0..(r - 1) |-> k])

\* line 180-208: the class the attribution of input a starts with
first_output_index(a) ==
    IF is_multi_output
    THEN IF output_indices # None THEN Some(Get(output_indices)[a]) ELSE Some(0)
    ELSE None

\* line 172-178: the head of one iteration of the loop over the inputs
BeginInput ==
    /\ pc = "input"
    /\ i < N
    /\ current_alphas' = sample_alphas(num_samples, use_expectation)
    /\ LET cb == select_baseline(i, use_expectation, R)
       IN IF cb = None
          THEN /\ error' = "IndexError: baseline"
               /\ pc' = "raised"
               /\ UNCHANGED <<current_baseline, output_index>>
          ELSE /\ current_baseline' = Get(cb)
               /\ output_index' = first_output_index(i)
               /\ pc' = "chunk"
               /\ UNCHANGED error
    /\ j' = 0
    /\ attribution_array' = <<>>
    /\ chunks' = <<>>
    /\ used' = {}
    /\ UNCHANGED <<params, is_multi_output, attr_shape, attributions, i, batch,
                   evals, grads, writes>>

\* line 210: the loop over the inputs is exhausted
Return ==
    /\ pc = "input"
    /\ i = N
    /\ pc' = "done"
    /\ UNCHANGED <<params, error, is_multi_output, attr_shape, attributions, i,
                   output_index, j, current_alphas, current_baseline,
                   attribution_array, batch, evals, grads, chunks, used, writes>>

\* mutant: the last, partial chunk sized like a full one
number_to_draw_full(bs, ns, jj) == bs

\* line 97
number_to_draw(bs, ns, jj) == Min(bs, ns - jj)

\* line 102: alphas[jj : min(jj + bs, ns)], a Python slice (clamped to the array)
alpha_slice(alphas, jj, bs, ns) ==
    LET hi == Min(Min(jj + bs, ns), Rows(alphas))
    IN [k \in 0..(hi - jj - 1) |-> alphas[jj + k]]

\* line 50: the `replace` flag handed to np.random.choice
choice_replace(r, d) == r > d

\* np.random.choice(r, size=d, replace=rep): every index vector it can return;
\* none when d > r without replacement (numpy raises ValueError)
random_choice(r, d, rep) ==
    LET all == [0..(d - 1) -> 0..(r - 1)]
    IN IF rep THEN all
       ELSE {f \in all : \A a, b \in 0..(d - 1) : a # b => f[a] # f[b]}

\* line 49-59: every batch of baseline rows _sample_baseline can return, each
\* row named by its index in `baseline`; cur holds the rows of current_baseline
sample_baseline(cur, d, expectation) ==
    IF expectation
    THEN {[k \in 0..(d - 1) |-> cur[f[k]]] :
             f \in random_choice(Rows(cur), d, choice_replace(Rows(cur), d))}
    ELSE {[k \in 0..(d * Rows(cur) - 1) |-> cur[k % Rows(cur)]]}

\* numpy broadcasting of a vector of length la against an array of shape
\* (rows,) + s: the vector is aligned with the LAST axis of the array
LastAxis(rows, s) == IF s = <<>> THEN rows ELSE s[Len(s)]
Broadcasts(la, rows, s) == la = LastAxis(rows, s) \/ la = 1 \/ LastAxis(rows, s) = 1
\* the product has the array's own shape (no axis of length 1 was stretched)
KeepsShape(la, rows, s) == la = LastAxis(rows, s) \/ la = 1
\* which entry of the vector multiplies element [r][p] of the array
alpha_index(la, s, r, p) == IF la = 1 THEN 0 ELSE IF s = <<>> THEN r ELSE p

\* line 112-113: batch_alphas * batch_input + (1.0 - batch_alphas) * batch_baseline
interpolate(al, x, b, s) ==
    [r \in DOMAIN x |-> [p \in 0..(Size(s) - 1) |->
        LET a == al[alpha_index(Rows(al), s, r, p)]
        IN RAdd(RMul(a, x[r][p]), RMul(RSub(One, a), b[r][p]))]]

\* line 118-119: tape.gradient(batch_predictions, batch_input) * batch_difference.
\* The tape watches batch_input, and the prediction depends on it through
\* batch_interpolated, so the chain rule brings in the factor
\* d interpolated / d input = the broadcast alpha.
batch_attributions(al, x, b, z, s, out) ==
    [r \in DOMAIN x |-> [p \in 0..(Size(s) - 1) |->
        LET a == al[alpha_index(Rows(al), s, r, p)]
        IN RMul(RMul(a, ModelGradient(model, out, z[r], p)),
                RSub(x[r][p], b[r][p]))]]

\* the rows of a 0-based array as a list
RECURSIVE AsList(_, _)
AsList(a, n) == IF n = 0 THEN <<>> ELSE Append(AsList(a, n - 1), a[n - 1])

\* line 96-120: one pass of the loop over the interpolation steps
Chunk ==
    /\ pc = "chunk"
    /\ j < num_samples
    /\ LET d == number_to_draw(batch_size, num_samples, j)
           outcomes == sample_baseline(current_baseline, d, use_expectation)
           rep == choice_replace(Rows(current_baseline), d)
           raise(e) ==
               /\ error' = e
               /\ pc' = "raised"
               /\ UNCHANGED <<attribution_array, j>>
       IN IF outcomes = {}
          THEN /\ raise("ValueError: np.random.choice")
               /\ batch' = [EmptyBatch EXCEPT !.number_to_draw = d, !.replace = rep]
               /\ UNCHANGED <<evals, grads, chunks, used>>
          ELSE \E bb \in outcomes :
               LET al == alpha_slice(current_alphas, j, batch_size, num_samples)
                   x == [r \in 0..(d - 1) |-> inputs.data[i]]
                   b == [r \in DOMAIN bb |-> baseline.data[bb[r]]]
                   fits == Rows(b) = Rows(x) /\ Broadcasts(Rows(al), Rows(x), S)
                   z == IF fits /\ KeepsShape(Rows(al), Rows(x), S)
                        THEN interpolate(al, x, b, S) ELSE <<>>
               IN /\ batch' = [number_to_draw |-> d, replace |-> rep,
                               batch_baseline |-> bb, batch_alphas |-> al,
                               input_rows |-> Rows(x), batch_interpolated |-> z]
                  /\ chunks' = Append(chunks,
                        [start |-> j, alpha_rows |-> Rows(al),
                         baseline_rows |-> Rows(bb), input_rows |-> Rows(x)])
                  /\ used' = used \cup {<<i, bb[r]>> : r \in DOMAIN bb}
                  /\ IF ~fits
                     THEN /\ raise("ValueError: broadcast")
                          /\ UNCHANGED <<evals, grads>>
                     ELSE IF ~KeepsShape(Rows(al), Rows(x), S)
                     THEN /\ raise("ModelEvaluationError")
                          /\ evals' = evals + 1
                          /\ UNCHANGED grads
                     ELSE /\ attribution_array' = attribution_array \o
                              AsList(batch_attributions(al, x, b, z, S, output_index),
                                     Rows(x))
                          /\ j' = j + batch_size
                          /\ evals' = evals + 1
                          /\ grads' = grads + 1
                          /\ UNCHANGED <<error, pc>>
    /\ UNCHANGED <<params, is_multi_output, attr_shape, attributions, i,
                   output_index, current_alphas, current_baseline, writes>>

RECURSIVE ColumnSum(_, _, _)
\* the sum over the first n rows of a list of element p
ColumnSum(rows, n, p) ==
    IF n = 0 THEN Zero ELSE RAdd(ColumnSum(rows, n - 1, p), rows[n][p])

\* line 121-122: np.mean(np.concatenate(attribution_array, axis=0), axis=0)
mean_rows(rows, s) ==
    [p \in 0..(Size(s) - 1) |-> RDivInt(ColumnSum(rows, Len(rows), p), Len(rows))]

\* mutant: the two leading indices of line 200 exchanged
store_slot_swapped(multi, indices, a, out) ==
    IF multi /\ indices = None THEN <<a, Get(out)>> ELSE <<a>>

\* line 190, 200, 209: the slot of the result the attribution is assigned to
store_slot(multi, indices, a, out) ==
    IF multi /\ indices = None THEN <<Get(out), a>> ELSE <<a>>

\* line 121-123 and the assignment at 190/200/209, then the loop control:
\* the next class of the same input (line 192) or the next input (line 172)
Finish ==
    /\ pc = "chunk"
    /\ j >= num_samples
    /\ LET m == mean_rows(attribution_array, S)
           slot == store_slot(is_multi_output, output_indices, i, output_index)
           num_classes == ModelOutputShape(model, 1)[2]
       IN IF slot \notin DOMAIN attributions
          THEN /\ error' = "IndexError: attributions"
               /\ pc' = "raised"
               /\ UNCHANGED <<attributions, writes, i, output_index, j,
                              attribution_array, chunks>>
          ELSE /\ attributions' = [attributions EXCEPT ![slot] = m]
               /\ writes' = [writes EXCEPT ![slot] =
                     Append(@, [input |-> i, class |-> output_index, value |-> m,
                                rows |-> Len(attribution_array)])]
               /\ UNCHANGED error
               /\ IF is_multi_output /\ output_indices = None
                     /\ Get(output_index) + 1 < num_classes
                  THEN /\ output_index' = Some(Get(output_index) + 1)
                       /\ j' = 0
                       /\ attribution_array' = <<>>
                       /\ chunks' = <<>>
                       /\ UNCHANGED <<i, pc>>
                  ELSE /\ i' = i + 1
                       /\ pc' = "input"
                       /\ UNCHANGED <<output_index, j, attribution_array, chunks>>
    /\ UNCHANGED <<params, is_multi_output, attr_shape, current_alphas,
                   current_baseline, batch, evals, grads, used>>

Next == Probe \/ Allocate \/ BeginInput \/ Chunk \/ Finish \/ Return

Spec == Init /\ [][Next]_vars

\* =================================================================== claims
Started == pc \notin {"probe", "alloc"}
Written == {k \in DOMAIN writes : Len(writes[k]) > 0}
\* a chunk got as far as interpolating
Interpolated == batch.number_to_draw > 0 /\ Rows(batch.batch_interpolated) > 0
\* the class whose attribution slot k of the result is documented to hold
SlotInput(k) == k[Len(k)]
SlotClass(k) ==
    IF ~model.multi THEN None
    ELSE IF output_indices = None THEN Some(k[1])
    ELSE Some(Get(output_indices)[k[1]])

\* C1: once the result is allocated, its shape is (N,)+S (single output, or
\* multiple outputs with output_indices) or (C, N)+S (multiple outputs, no
\* output_indices), and the allocation never fails.
C1_ResultShape ==
    (Started /\ ~(~model.multi /\ output_indices # None)) =>
        /\ error # "TypeError: np.zeros"
        /\ attr_shape = IF model.multi /\ output_indices = None
                        THEN <<model.C>> \o inputs.shape
                        ELSE inputs.shape

\* C2 as stated: output_indices with a single-output model raises ValueError
\* before the model has been evaluated at all.
C2_ZeroEvaluations ==
    (Started /\ ~model.multi /\ output_indices # None) =>
        /\ error = "ValueError: output_indices"
        /\ evals = 0
        /\ grads = 0

\* C2 amended: output_indices with a single-output model raises ValueError
\* after exactly one forward evaluation (the probe of line 156), with no
\* gradient evaluation, no attribution computed and no result allocated; and
\* that error is raised in no other case.
C2_ProbeOnly ==
    /\ (Started /\ ~model.multi /\ output_indices # None) =>
          /\ pc = "raised"
          /\ error = "ValueError: output_indices"
          /\ evals = 1
          /\ grads = 0
          /\ used = {}
          /\ attr_shape = <<>>
    /\ error = "ValueError: output_indices" => (~model.multi /\ output_indices # None)

\* the ValueError of line 163 has been raised
C2_Witness == error = "ValueError: output_indices" /\ pc = "raised"

\* C3: for a linear model (constant gradient G), one shared baseline B and
\* use_expectation = false, the returned attribution of input x is (x - B) * G.
C3_LinearExact ==
    (pc = "done" /\ ~use_expectation /\ R = 1 /\ model.kind = "linear") =>
        \A k \in DOMAIN attributions : \A p \in 0..(Size(S) - 1) :
            attributions[k][p] =
                RMul(RSub(inputs.data[SlotInput(k)][p], baseline.data[0][p]),
                     ModelGradient(model, SlotClass(k), inputs.data[SlotInput(k)], p))

\* C4: without expectation sampling, the only baseline row that enters the
\* attribution of input a is row a when there are several rows, and the single
\* row when there is one; every input that has been attributed used that row.
C4_OwnBaselineRow ==
    ~use_expectation =>
        /\ \A u \in used : u[2] = IF R > 1 THEN u[1] ELSE 0
        /\ (pc = "input" /\ i > 0) => used = {<<i - 1, IF R > 1 THEN i - 1 ELSE 0>>}

\* a call with per-input baselines has attributed input 1 against row 1 alone
C4_Witness ==
    /\ pc = "input" /\ ~use_expectation /\ R > 1
    /\ i = 2 /\ used = {<<1, 1>>}

\* C5: with expectation sampling the baseline sampler never fails, returns
\* exactly D rows, and draws with replacement exactly when R <= D.
C5_SamplerTotal ==
    use_expectation =>
        /\ error # "ValueError: np.random.choice"
        /\ batch.number_to_draw > 0 =>
              /\ Rows(batch.batch_baseline) = batch.number_to_draw
              /\ batch.replace = (R <= batch.number_to_draw)

\* C6: in every chunk, row k of the interpolated batch is
\* alpha_k * input + (1 - alpha_k) * baseline_k, the same alpha_k for every
\* feature of the row, and interpolating never fails.
C6_AlphaPerRow ==
    /\ error \notin {"ValueError: broadcast", "ModelEvaluationError"}
    /\ Interpolated =>
          \A k \in DOMAIN batch.batch_interpolated : \A p \in 0..(Size(S) - 1) :
              batch.batch_interpolated[k][p] =
                  RAdd(RMul(batch.batch_alphas[k], inputs.data[i][p]),
                       RMul(RSub(One, batch.batch_alphas[k]),
                            baseline.data[batch.batch_baseline[k]][p]))

\* C7 as stated: without expectation sampling the alphas are num_samples
\* evenly spaced values that start at 0 and end at 1, for every num_samples.
C7_BothEndpoints ==
    (~use_expectation /\ Rows(current_alphas) > 0) =>
        /\ Rows(current_alphas) = num_samples
        /\ current_alphas[0] = Zero
        /\ current_alphas[num_samples - 1] = One
        /\ \A k \in 1..(num_samples - 1) :
              RSub(current_alphas[k], current_alphas[k - 1]) =
              RSub(current_alphas[num_samples - 1], current_alphas[num_samples - 2])

\* C7 amended: the alphas are num_samples values starting at 0; for
\* num_samples >= 2 they are evenly spaced (step 1/(num_samples-1)) and end at
\* 1; for num_samples = 1 the single value is 0, and 1 is not among them.
C7_Linspace ==
    (~use_expectation /\ Rows(current_alphas) > 0) =>
        /\ Rows(current_alphas) = num_samples
        /\ current_alphas[0] = Zero
        /\ num_samples >= 2 =>
              /\ current_alphas[num_samples - 1] = One
              /\ \A k \in 1..(num_samples - 1) :
                    RSub(current_alphas[k], current_alphas[k - 1]) =
                    Rat(1, num_samples - 1)
        /\ num_samples = 1 => current_alphas[num_samples - 1] = Zero

\* three alphas have been drawn for an integrated-gradients call: 0, 1/2, 1
C7_Witness ==
    /\ ~use_expectation /\ num_samples = 3 /\ pc = "chunk"
    /\ current_alphas = [k \in 0..2 |-> Rat(k, 2)]

C9_SlotsWrittenOnce ==
    /\ \A k \in Written :
          /\ Len(writes[k]) = 1
          /\ writes[k][1].input = SlotInput(k)
          /\ writes[k][1].class = SlotClass(k)
          /\ attributions[k] = writes[k][1].value
    /\ pc = "done" =>
          /\ Written = DOMAIN attributions
          /\ DOMAIN attributions =
                IF model.multi /\ output_indices = None
                THEN {<<c, a>> : c \in 0..(model.C - 1), a \in 0..(N - 1)}
                ELSE {<<a>> : a \in 0..(N - 1)}

\* a per-class call over two inputs and two classes has returned
C9_Witness ==
    /\ pc = "done" /\ model.multi /\ output_indices = None
    /\ model.C = 2 /\ N = 2
    /\ writes[<<1, 0>>][1].class = Some(1)
    /\ writes[<<1, 0>>][1].input = 0

====
